---- MODULE Spec2Model ----
(***************************************************************************)
(* Model of calcular_alocacao (src/app.py): phase 1 lets every unit serve  *)
(* its own demand, phase 2 greedily routes the unmet demand of the origins *)
(* to the idle capacity of the destinations, then the summary is computed. *)
(* The matching loop is modelled one iteration of the inner or outer loop  *)
(* per step, so that the claims about intermediate states can be checked.  *)
(***************************************************************************)
EXTENDS Integers, Sequences, FiniteSets

\* ---------------------------------------------------------------- bounds
\* capacidade_instalada and demanda of a row range over 0..MaxValor
MaxValor == 3
\* min_alocacao ranges over 1..MaxMinAlocacao when set through the sidebar
MaxMinAlocacao == 2

\* The rows of the input table (the DataFrame index), in input order.
Linhas == 1 .. 3

\* The code only ever compares identifiers and groups for equality (and uses
\* identifiers as dictionary keys), so one column per equality pattern of
\* three rows covers every input column, duplicated identifiers included.
ColunasIdentificador ==
    { <<"CAP001", "CAP002", "CAP003">>, <<"CAP001", "CAP001", "CAP002">>,
      <<"CAP001", "CAP002", "CAP001">>, <<"CAP001", "CAP002", "CAP002">>,
      <<"CAP001", "CAP001", "CAP001">> }

ColunasGrupo ==
    { <<"A", "B", "C">>, <<"A", "A", "B">>, <<"A", "B", "A">>,
      <<"A", "B", "B">>, <<"A", "A", "A">> }

VARIABLES
    identificador,          \* df['identificador']
    grupo,                  \* df['grupo']
    capacidade_instalada,   \* df['capacidade_instalada']
    demanda,                \* df['demanda']
    mesmo_grupo,            \* parameter
    min_alocacao,           \* parameter
    demanda_atendida_local, \* df['demanda_atendida_local']
    df_demanda_na,          \* df['demanda_na'] (never mutated after phase 1)
    df_capacidade_ociosa,   \* df['capacidade_ociosa'] (never mutated after phase 1)
    demanda_na,             \* unidades[u]['demanda_na'] (mutated by the loop)
    capacidade_ociosa,      \* unidades[u]['capacidade_ociosa'] (mutated by the loop)
    origens,                \* sorted list of origin rows
    destinos,               \* sorted list of destination rows
    alocacoes_detalhadas,   \* identifier -> list of {destino, quantidade}
    alocacoes,              \* the appends of line 136, in order, by row
    resumo,                 \* the summary dictionary, once computed
    pc,                     \* "fase1", "origem", "destino", "fim"
    i,                      \* position in origens of the outer loop
    j                       \* position in destinos of the inner loop

vars == << identificador, grupo, capacidade_instalada, demanda, mesmo_grupo,
           min_alocacao, demanda_atendida_local, df_demanda_na,
           df_capacidade_ociosa, demanda_na, capacidade_ociosa, origens,
           destinos, alocacoes_detalhadas, alocacoes, resumo, pc, i, j >>

entradas == << identificador, grupo, capacidade_instalada, demanda,
               mesmo_grupo, min_alocacao >>

fase1vars == << demanda_atendida_local, df_demanda_na, df_capacidade_ociosa,
                origens, destinos >>

\* ---------------------------------------------------------------- helpers
Minimo(a, b) == IF a <= b THEN a ELSE b

Maximo(a, b) == IF a >= b THEN a ELSE b

RECURSIVE SomaSobre(_, _)
SomaSobre(f, S) ==
    IF S = {} THEN 0
    ELSE LET x == CHOOSE y \in S : TRUE IN f[x] + SomaSobre(f, S \ {x})

\* Series.sum() of a column
Soma(f) == SomaSobre(f, DOMAIN f)

RECURSIVE SomaQuantidades(_)
SomaQuantidades(s) ==
    IF s = <<>> THEN 0 ELSE s[1].quantidade + SomaQuantidades(Tail(s))

RECURSIVE Posicao(_, _)
Posicao(s, x) ==
    IF s = <<>> THEN 0
    ELSE IF s[Len(s)] = x THEN Len(s)
    ELSE Posicao(SubSeq(s, 1, Len(s) - 1), x)

Elementos(s) == { s[k] : k \in DOMAIN s }

\* The rows in input order (df.to_dict('records'))
RECURSIVE EmOrdem(_)
EmOrdem(S) ==
    IF S = {} THEN <<>>
    ELSE LET m == CHOOSE x \in S : \A y \in S : x <= y
         IN <<m>> \o EmOrdem(S \ {m})

unidades == EmOrdem(Linhas)

\* ---------------------------------------------------------------- phase 1
SemAutoAtendimento(u) == 0

\* np.minimum(df['demanda'], df['capacidade_instalada'])
DemandaAtendidaLocal(u) == Minimo(demanda[u], capacidade_instalada[u])

\* list.sort(key=..., reverse=True): descending and stable
RECURSIVE InserirDesc(_, _, _)
InserirDesc(s, x, chave) ==
    IF s = <<>> THEN <<x>>
    ELSE IF chave[s[Len(s)]] >= chave[x] THEN Append(s, x)
    ELSE Append(InserirDesc(SubSeq(s, 1, Len(s) - 1), x, chave), s[Len(s)])

RECURSIVE InserirDescInstavel(_, _, _)
InserirDescInstavel(s, x, chave) ==
    IF s = <<>> THEN <<x>>
    ELSE IF chave[s[Len(s)]] > chave[x] THEN Append(s, x)
    ELSE Append(InserirDescInstavel(SubSeq(s, 1, Len(s) - 1), x, chave), s[Len(s)])

RECURSIVE OrdenarDescInstavel(_, _)
OrdenarDescInstavel(s, chave) ==
    IF s = <<>> THEN <<>>
    ELSE InserirDescInstavel(OrdenarDescInstavel(SubSeq(s, 1, Len(s) - 1), chave),
                             s[Len(s)], chave)

RECURSIVE OrdenarDesc(_, _)
OrdenarDesc(s, chave) ==
    IF s = <<>> THEN <<>>
    ELSE InserirDesc(OrdenarDesc(SubSeq(s, 1, Len(s) - 1), chave), s[Len(s)], chave)

\* ---------------------------------------------------------------- phase 2
QtdMaxima(o, d) == Maximo(demanda_na[o], capacidade_ociosa[d])

\* min(origem['demanda_na'], destino['capacidade_ociosa'])
qtd_alocada(o, d) == Minimo(demanda_na[o], capacidade_ociosa[d])

IgnorarSemIdentificador(o, d) ==
    \/ capacidade_ociosa[d] < min_alocacao
    \/ mesmo_grupo /\ grupo[o] # grupo[d]
    \/ qtd_alocada(o, d) < min_alocacao

IgnorarSemGrupo(o, d) ==
    \/ identificador[o] = identificador[d]
    \/ capacidade_ociosa[d] < min_alocacao
    \/ qtd_alocada(o, d) < min_alocacao

IgnorarSemMinimo(o, d) ==
    \/ identificador[o] = identificador[d]
    \/ mesmo_grupo /\ grupo[o] # grupo[d]

\* The three `continue` conditions of the inner loop
Ignorar(o, d) ==
    \/ identificador[o] = identificador[d]
    \/ capacidade_ociosa[d] < min_alocacao
    \/ mesmo_grupo /\ grupo[o] # grupo[d]
    \/ qtd_alocada(o, d) < min_alocacao

CapacidadeNaoDebitada(d, q) == capacidade_ociosa

\* destino['capacidade_ociosa'] -= qtd_alocada
DebitarCapacidade(d, q) ==
    [capacidade_ociosa EXCEPT ![d] = capacidade_ociosa[d] - q]

\* origem['demanda_na'] -= qtd_alocada
DebitarDemanda(o, q) == [demanda_na EXCEPT ![o] = demanda_na[o] - q]

\* ---------------------------------------------------------------- summary
\* sum(len(aloc) > 0 for aloc in alocacoes_detalhadas.values())
ContagemDeOrigensAlocadas ==
    Cardinality({ id \in DOMAIN alocacoes_detalhadas :
                    alocacoes_detalhadas[id] # <<>> })

\* resumo['demanda_alocada'] = demanda_na_inicial - demanda_na_final
DemandaAlocada == Soma(df_demanda_na) - Soma(demanda_na)

Resumo ==
    [ demanda_na_inicial        |-> Soma(df_demanda_na),
      demanda_na_final          |-> Soma(demanda_na),
      capacidade_ociosa_inicial |-> Soma(df_capacidade_ociosa),
      capacidade_ociosa_final   |-> Soma(capacidade_ociosa),
      demanda_alocada           |-> DemandaAlocada ]

SemResumo ==
    [ demanda_na_inicial        |-> 0,
      demanda_na_final          |-> 0,
      capacidade_ociosa_inicial |-> 0,
      capacidade_ociosa_final   |-> 0,
      demanda_alocada           |-> 0 ]

\* ---------------------------------------------------------------- initial states
Zeros == [u \in Linhas |-> 0]

InitComum ==
    /\ identificador \in ColunasIdentificador
    /\ grupo \in ColunasGrupo
    /\ capacidade_instalada \in [Linhas -> 0 .. MaxValor]
    /\ demanda \in [Linhas -> 0 .. MaxValor]
    /\ mesmo_grupo \in BOOLEAN
    \* line 121 reads the group column only when mesmo_grupo is set
    /\ ~mesmo_grupo => grupo = <<"A", "B", "C">>
    /\ demanda_atendida_local = Zeros
    /\ df_demanda_na = Zeros
    /\ df_capacidade_ociosa = Zeros
    /\ demanda_na = Zeros
    /\ capacidade_ociosa = Zeros
    /\ origens = <<>>
    /\ destinos = <<>>
    /\ alocacoes_detalhadas = [id \in Elementos(identificador) |-> <<>>]
    /\ alocacoes = <<>>
    /\ resumo = SemResumo
    /\ pc = "fase1"
    /\ i = 0
    /\ j = 0

\* main(): the sidebar's number_input has min_value=1
Init ==
    /\ min_alocacao \in 1 .. MaxMinAlocacao
    /\ InitComum

\* calcular_alocacao called directly: nothing restricts min_alocacao
InitDireto ==
    /\ min_alocacao \in (0 - 1) .. MaxMinAlocacao
    /\ InitComum

\* ---------------------------------------------------------------- actions
\* lines 86-108: self-service, the two lists, the two sorts, the empty trail
AutoAtendimento ==
    /\ pc = "fase1"
    /\ LET local == [u \in Linhas |-> DemandaAtendidaLocal(u)]
           na    == [u \in Linhas |-> demanda[u] - local[u]]
           oc    == [u \in Linhas |-> capacidade_instalada[u] - local[u]]
           EhOrigem(u)  == na[u] > 0
           EhDestino(u) == oc[u] >= min_alocacao
       IN /\ demanda_atendida_local' = local
          /\ df_demanda_na' = na
          /\ df_capacidade_ociosa' = oc
          /\ demanda_na' = na
          /\ capacidade_ociosa' = oc
          /\ origens' = OrdenarDesc(SelectSeq(unidades, EhOrigem), na)
          /\ destinos' = OrdenarDesc(SelectSeq(unidades, EhDestino), oc)
    /\ alocacoes_detalhadas' = [id \in Elementos(identificador) |-> <<>>]
    /\ pc' = "origem"
    /\ i' = 1
    /\ UNCHANGED << entradas, alocacoes, resumo, j >>

\* lines 111-113: the origin has less than min_alocacao left
OrigemIgnorada ==
    /\ pc = "origem"
    /\ i <= Len(origens)
    /\ demanda_na[origens[i]] < min_alocacao
    /\ i' = i + 1
    /\ UNCHANGED << entradas, fase1vars, demanda_na, capacidade_ociosa,
                    alocacoes_detalhadas, alocacoes, resumo, pc, j >>

\* lines 111-115: the origin enters the scan of the destinations
OrigemInicia ==
    /\ pc = "origem"
    /\ i <= Len(origens)
    /\ demanda_na[origens[i]] >= min_alocacao
    /\ pc' = "destino"
    /\ j' = 1
    /\ UNCHANGED << entradas, fase1vars, demanda_na, capacidade_ociosa,
                    alocacoes_detalhadas, alocacoes, resumo, i >>

\* lines 115-129: one of the `continue` conditions holds
DestinoIgnorado ==
    /\ pc = "destino"
    /\ j <= Len(destinos)
    /\ Ignorar(origens[i], destinos[j])
    /\ j' = j + 1
    /\ UNCHANGED << entradas, fase1vars, demanda_na, capacidade_ociosa,
                    alocacoes_detalhadas, alocacoes, resumo, pc, i >>

\* lines 124-143: the match is applied and recorded
Alocar ==
    /\ pc = "destino"
    /\ j <= Len(destinos)
    /\ ~Ignorar(origens[i], destinos[j])
    /\ LET o == origens[i]
           d == destinos[j]
           q == qtd_alocada(o, d)
       IN /\ demanda_na' = DebitarDemanda(o, q)
          /\ capacidade_ociosa' = DebitarCapacidade(d, q)
          /\ alocacoes_detalhadas' =
                [alocacoes_detalhadas EXCEPT ![identificador[o]] =
                    Append(@, [destino |-> identificador[d], quantidade |-> q])]
          /\ alocacoes' =
                Append(alocacoes, [origem |-> o, destino |-> d, quantidade |-> q])
          /\ IF demanda_na'[o] < min_alocacao
             THEN pc' = "origem" /\ i' = i + 1 /\ j' = 0
             ELSE pc' = "destino" /\ i' = i /\ j' = j + 1
    /\ UNCHANGED << entradas, fase1vars, resumo >>

\* line 115: the destinations are exhausted for this origin
DestinosEsgotados ==
    /\ pc = "destino"
    /\ j > Len(destinos)
    /\ pc' = "origem"
    /\ i' = i + 1
    /\ j' = 0
    /\ UNCHANGED << entradas, fase1vars, demanda_na, capacidade_ociosa,
                    alocacoes_detalhadas, alocacoes, resumo >>

\* lines 156-189: the origins are exhausted, the summary is computed
Resumir ==
    /\ pc = "origem"
    /\ i > Len(origens)
    /\ resumo' = Resumo
    /\ pc' = "fim"
    /\ UNCHANGED << entradas, fase1vars, demanda_na, capacidade_ociosa,
                    alocacoes_detalhadas, alocacoes, i, j >>

Next ==
    \/ AutoAtendimento
    \/ OrigemIgnorada
    \/ OrigemInicia
    \/ DestinoIgnorado
    \/ Alocar
    \/ DestinosEsgotados
    \/ Resumir

Spec == Init /\ [][Next]_vars

SpecDireto == InitDireto /\ [][Next]_vars

\* ---------------------------------------------------------------- claims
DepoisDaFase1 == pc # "fase1"

\* Sum of the amounts of the recorded matches that row u originated
RECURSIVE Enviado(_, _)
Enviado(s, u) ==
    IF s = <<>> THEN 0
    ELSE (IF s[1].origem = u THEN s[1].quantidade ELSE 0) + Enviado(Tail(s), u)

\* Sum of the amounts of the recorded matches that row u received
RECURSIVE Recebido(_, _)
Recebido(s, u) ==
    IF s = <<>> THEN 0
    ELSE (IF s[1].destino = u THEN s[1].quantidade ELSE 0) + Recebido(Tail(s), u)

\* C1 as stated: after self-service and in every state of the matching loop,
\* self_served + residual_demand = demand and
\* self_served + idle_capacity = installed_capacity for every unit.
C1_ConservacaoOriginal ==
    DepoisDaFase1 =>
        \A u \in Linhas :
            /\ demanda_atendida_local[u] + demanda_na[u] = demanda[u]
            /\ demanda_atendida_local[u] + capacidade_ociosa[u] = capacidade_instalada[u]

\* C1 amended: in every state from the end of self-service on, for every unit,
\* self_served + residual_demand + (amounts of the matches it originated) = demand
\* and self_served + idle_capacity + (amounts of the matches it received)
\* = installed_capacity.
C1_Conservacao ==
    DepoisDaFase1 =>
        \A u \in Linhas :
            /\ demanda_atendida_local[u] + demanda_na[u] + Enviado(alocacoes, u)
                 = demanda[u]
            /\ demanda_atendida_local[u] + capacidade_ociosa[u] + Recebido(alocacoes, u)
                 = capacidade_instalada[u]

C1_Witness ==
    /\ pc = "fim"
    /\ \E u \in Linhas : Enviado(alocacoes, u) > 0 /\ demanda_atendida_local[u] > 0
    /\ \E u \in Linhas : Recebido(alocacoes, u) > 0 /\ capacidade_ociosa[u] > 0

\* C2: with min_alocacao > 0, every unit's residual demand and idle capacity
\* are >= 0 in every state, the final one included.
C2_NaoNegatividade ==
    \A u \in Linhas :
        /\ demanda_na[u] >= 0
        /\ capacidade_ociosa[u] >= 0
        /\ df_demanda_na[u] >= 0
        /\ df_capacidade_ociosa[u] >= 0

C2_Witness ==
    /\ pc = "fim"
    /\ Len(alocacoes) >= 2
    /\ \E u \in Linhas : demanda_na[u] = 0 /\ df_demanda_na[u] > 0
    /\ \E u \in Linhas : capacidade_ociosa[u] = 0 /\ df_capacidade_ociosa[u] > 0

\* C3: every recorded match has amount >= min_alocacao and > 0, and a match
\* is only ever recorded between an origin whose residual demand and a
\* destination whose current idle capacity are both >= min_alocacao.
C3_RespeitaMinimo ==
    /\ [](\A k \in DOMAIN alocacoes :
            /\ alocacoes[k].quantidade >= min_alocacao
            /\ alocacoes[k].quantidade > 0)
    /\ [](\A id \in DOMAIN alocacoes_detalhadas :
            \A k \in DOMAIN alocacoes_detalhadas[id] :
                alocacoes_detalhadas[id][k].quantidade >= min_alocacao)
    /\ [][Len(alocacoes') > Len(alocacoes) =>
            LET e == alocacoes'[Len(alocacoes')]
            IN /\ demanda_na[e.origem] >= min_alocacao
               /\ capacidade_ociosa[e.destino] >= min_alocacao]_vars

\* a destination that fell below the threshold (but not to zero) is passed
\* over by a later origin that still has at least the threshold left
C3_Witness ==
    /\ pc = "fim"
    /\ alocacoes # <<>>
    /\ \E o, d \in Linhas :
          /\ identificador[o] # identificador[d]
          /\ grupo[o] = grupo[d]
          /\ demanda_na[o] >= min_alocacao
          /\ capacidade_ociosa[d] > 0
          /\ capacidade_ociosa[d] < min_alocacao
          /\ df_capacidade_ociosa[d] >= min_alocacao

\* C4: when mesmo_grupo is set, every recorded match joins two units of the
\* same group; if no two units share a group, nothing is recorded.
C4_RespeitaGrupo ==
    mesmo_grupo =>
        /\ \A k \in DOMAIN alocacoes :
              grupo[alocacoes[k].origem] = grupo[alocacoes[k].destino]
        /\ (\A u, v \in Linhas : u # v => grupo[u] # grupo[v]) => alocacoes = <<>>

\* a match was made inside a group while a numerically feasible pair of
\* another two groups was left unmatched
C4_Witness ==
    /\ pc = "fim"
    /\ mesmo_grupo
    /\ alocacoes # <<>>
    /\ \E o, d \in Linhas :
          /\ grupo[o] # grupo[d]
          /\ identificador[o] # identificador[d]
          /\ demanda_na[o] >= min_alocacao
          /\ capacidade_ociosa[d] >= min_alocacao

\* C5: no recorded match has the same unit as origin and destination, nor
\* the same identifier on both sides.
C5_SemAutoAlocacao ==
    /\ \A k \in DOMAIN alocacoes :
          /\ alocacoes[k].origem # alocacoes[k].destino
          /\ identificador[alocacoes[k].origem] # identificador[alocacoes[k].destino]
    /\ \A id \in DOMAIN alocacoes_detalhadas :
          \A k \in DOMAIN alocacoes_detalhadas[id] :
              alocacoes_detalhadas[id][k].destino # id

\* the identifier test of line 117 was what kept a pair apart
C5_Witness ==
    /\ pc = "fim"
    /\ alocacoes # <<>>
    /\ \E o, d \in Linhas :
          /\ identificador[o] = identificador[d]
          /\ demanda_na[o] >= min_alocacao
          /\ capacidade_ociosa[d] >= min_alocacao

RECURSIVE SomaDetalhadas(_)
SomaDetalhadas(S) ==
    IF S = {} THEN 0
    ELSE LET id == CHOOSE x \in S : TRUE
         IN SomaQuantidades(alocacoes_detalhadas[id]) + SomaDetalhadas(S \ {id})

\* C6: after every step of the loop the drop of the total residual demand
\* equals the sum of the recorded amounts, and the reported
\* resumo['demanda_alocada'] equals that sum.
C6_MetricasConcordam ==
    /\ DepoisDaFase1 =>
          /\ SomaSobre(df_demanda_na, Linhas) - SomaSobre(demanda_na, Linhas)
               = SomaQuantidades(alocacoes)
          /\ SomaDetalhadas(DOMAIN alocacoes_detalhadas) = SomaQuantidades(alocacoes)
    /\ pc = "fim" =>
          /\ resumo.demanda_alocada = SomaQuantidades(alocacoes)
          /\ resumo.demanda_alocada = resumo.demanda_na_inicial - resumo.demanda_na_final

\* the amount allocated differs from the number of origins that allocated
C6_Witness ==
    /\ pc = "fim"
    /\ Len(alocacoes) >= 2
    /\ resumo.demanda_alocada > Len(alocacoes)

SemParRestantePorIdentificador ==
    pc = "fim" =>
        ~ \E o, d \in Linhas :
              /\ identificador[o] # identificador[d]
              /\ (mesmo_grupo => grupo[o] = grupo[d])
              /\ demanda_na[o] >= min_alocacao
              /\ capacidade_ociosa[d] >= min_alocacao

\* C8 as stated: with min_alocacao <= 0 the run is rejected before the
\* matching phase, so nothing is recorded.
C8_ConfigInvalidaRejeitada ==
    min_alocacao <= 0 => alocacoes = <<>>

\* C9: from the end of self-service on, no unit has residual demand > 0 and
\* idle capacity > 0 at once, and no unit is in both lists.
C9_ExclusaoMutua ==
    DepoisDaFase1 =>
        /\ \A u \in Linhas : ~(demanda_na[u] > 0 /\ capacidade_ociosa[u] > 0)
        /\ \A u \in Linhas : ~(df_demanda_na[u] > 0 /\ df_capacidade_ociosa[u] > 0)
        /\ Elementos(origens) \cap Elementos(destinos) = {}

C9_Witness ==
    /\ pc = "fim"
    /\ alocacoes # <<>>
    /\ \E u \in Linhas : demanda_atendida_local[u] > 0 /\ demanda_na[u] > 0
    /\ \E u \in Linhas : demanda_atendida_local[u] > 0 /\ capacidade_ociosa[u] > 0

\* s lists exactly the rows of S, each once, in non-increasing order of
\* chave, rows of equal chave in input order
OrdenadaEstavel(s, S, chave) ==
    /\ Elementos(s) = S
    /\ Len(s) = Cardinality(S)
    /\ \A a, b \in DOMAIN s :
          a < b => \/ chave[s[a]] > chave[s[b]]
                   \/ chave[s[a]] = chave[s[b]] /\ s[a] < s[b]

====
